---- MODULE Spec2Model ----
(***************************************************************************)
(* The command handlers of the Backend.AI command-line client              *)
(* (cli/admin/groups.py, cli/admin/sessions.py, cli/manager.py) as a state *)
(* machine.  One process is one invocation of the client.  Everything an   *)
(* invocation does that can be observed from outside (entering and leaving *)
(* a client session, collaborator calls with their outcome, prompts,       *)
(* printed messages, sleeps, an exception leaving the handler) is appended *)
(* to the invocation's trace in program order; the exit code and the state *)
(* file announcement.json are state variables.                             *)
(***************************************************************************)
EXTENDS Integers, Sequences, FiniteSets, TLC

VARIABLES pc, frame, trace, exit_code, file, file0, writes

vars == <<pc, frame, trace, exit_code, file, file0, writes>>

(* ------------------------------ bounds --------------------------------- *)

\* the largest number of Manager.status polls one freeze --wait is followed for
MaxPolls == 3
\* the largest active-session count the manager reports
MaxActive == 2
\* the largest number of key/value pairs in the text of announcement.json
MaxPairs == 2
\* the largest number of writes to announcement.json by other programs
MaxWrites == 1

(* ------------------------- program constants --------------------------- *)

\* time.sleep(3) between two status polls
SleepSeconds == 3

(* --------------------------- input domains ----------------------------- *)

Procs == {1, 2}

\* Python's None
NoneVal == "<None>"

\* exceptions a collaborator call may raise (their text, as print_error shows it)
Errors == {"ConnectionError", "BackendAPIError"}
\* the msg field of an ok:false response
Msgs == {"permission denied", "no such group"}
Gids == {"g1", "g2"}
DomainNames == {"d1"}
GroupNames == {"team"}

(* ------------------------------ events --------------------------------- *)

\* One observable event: what kind (ev), of what (what), with which arguments
\* or message parts (arg), and for a call or prompt its outcome (tag), the
\* returned strings (res) and the returned number (n).
E(ev, what, arg, tag, res, n) ==
    [ev |-> ev, what |-> what, arg |-> arg, tag |-> tag, res |-> res, n |-> n]

\* Session.__enter__ and Session.__exit__
Enter == E("enter", "Session", <<>>, "", <<>>, 0)
Exit == E("exit", "Session", <<>>, "", <<>>, 0)

\* a collaborator call session.<what>(arg) and its outcome r
Call(what, arg, r) == E("call", what, arg, r.tag, r.val, r.n)

\* a message printed through a routine of cli/pretty.py, or plain print
P(routine, parts) == E("print", routine, parts, "", <<>>, 0)

\* an exception that leaves the handler: the interpreter reports it, exit code 1
Uncaught(type, parts) == E("uncaught", type, parts, "", <<>>, 0)

\* outcomes of a collaborator call
Raise(e) == [tag |-> "raise", val |-> <<e>>, n |-> 0]
Ret(tag, val, n) == [tag |-> tag, val |-> val, n |-> n]

Raises == {Raise(e) : e \in Errors}

Range(s) == {s[i] : i \in 1..Len(s)}

Count(t, ev, what) == Cardinality({i \in 1..Len(t) : t[i].ev = ev /\ t[i].what = what})

(* ------------------------ with Session() as session -------------------- *)

\* A with block is left at its end ("end"), by return, by sys.exit
\* ("SystemExit") or by an exception.
\* A with statement that forgets to release the session when the block is left
\* by sys.exit or by an exception.
WithSessionLeak(body, left) ==
    IF left \in {"end", "return"} THEN <<Enter>> \o body \o <<Exit>>
    ELSE <<Enter>> \o body

\* `with Session() as session: body`: __enter__, the events of the body, and
\* __exit__ however the block is left.
WithSession(body, left) == <<Enter>> \o body \o <<Exit>>

\* The result of a whole handler: its events and the exit code of the process.
Outcome(t, code) == [t |-> t, code |-> code]

(* ---------------------------- state ------------------------------------ *)

\* the handler that runs, its arguments and the local variables that outlive
\* one step
NoFrame ==
    [handler |-> "", invoked_subcommand |-> NoneVal, domain_name |-> NoneVal,
     message |-> NoneVal, wait |-> FALSE,
     force_kill |-> FALSE, state |-> <<>>, more |-> 0]

\* The process ends: handler `h` ran to its end with outcome `o`.
FinishWith(p, f, o) ==
    /\ pc' = [pc EXCEPT ![p] = "done"]
    /\ frame' = [frame EXCEPT ![p] = f]
    /\ trace' = [trace EXCEPT ![p] = @ \o o.t]
    /\ exit_code' = [exit_code EXCEPT ![p] = o.code]

Finish(p, h, o) == FinishWith(p, [frame[p] EXCEPT !.handler = h], o)

(* ======================= cli/admin/groups.py =========================== *)

\* the (label, key) pairs of `fields`
GroupFields ==
    << <<"ID", "id">>, <<"Name", "name">>, <<"Description", "description">>,
       <<"Active?", "is_active">>, <<"Created At", "created_at">>,
       <<"Domain Name", "domain_name">> >>

\* the keys a group mapping of a response may carry
GroupMappings ==
    { <<"id", "name", "description", "is_active", "created_at", "domain_name">>,
      <<"id", "name">>, <<>> }

\* the labels of the fields whose key is present in the mapping `keys`
Labels(fields, keys) ==
    LET present == SelectSeq(fields, LAMBDA f : f[2] \in Range(keys))
    IN [i \in 1..Len(present) |-> present[i][1]]

\* tabulate(...): the table's headers or row labels, and its number of rows
Table(labels, rows) == E("table", "tabulate", labels, "", <<>>, rows)

GroupDetailResults ==
    Raises \cup {Ret("none", <<>>, 0)} \cup {Ret("ok", m, 0) : m \in GroupMappings}

\* group(gid), with `resp` what session.Group.detail does
group_run(gid, resp) ==
    LET call == Call("Group.detail", <<gid>>, resp)
    IN  IF resp.tag = "raise"
        THEN Outcome(WithSession(<<call, P("print_error", resp.val)>>, "SystemExit"), 1)
        ELSE IF resp.tag = "none"
        THEN Outcome(WithSession(<<call, P("print", <<"There is no such group.">>)>>,
                                 "SystemExit"), 1)
        ELSE LET rows == Labels(GroupFields, resp.val)
             IN  Outcome(WithSession(<<call, Table(rows, Len(rows))>>, "end"), 0)

group(p) ==
    /\ pc[p] = "start"
    /\ \E gid \in Gids, resp \in GroupDetailResults :
         Finish(p, "group", group_run(gid, resp))
    /\ UNCHANGED <<file, file0, writes>>

Subcommands == {"add", "update", "delete", "add_users", "remove_users"}

\* a list response: the keys of its first item (val) and its length (n)
GroupListResults ==
    Raises \cup {Ret("ok", <<>>, 0)}
           \cup {Ret("ok", m, n) : m \in GroupMappings, n \in 1..2}

\* The body of groups(ctx, domain_name) when no subcommand is invoked.
groups_run(domain_name, resp) ==
    IF domain_name = NoneVal
    THEN Outcome(<<P("print", <<"Domain name should be given with \"-d\" option. ",
                               "If you want to see help for groups command, append \"-h\" option.">>)>>,
                 1)
    ELSE LET call == Call("Group.list", <<domain_name>>, resp)
         IN  IF resp.tag = "raise"
             THEN Outcome(WithSession(<<call, P("print_error", resp.val)>>, "SystemExit"), 1)
             ELSE IF resp.n < 1
             THEN Outcome(WithSession(<<call, P("print", <<"There is no group.">>)>>,
                                      "return"), 0)
             ELSE Outcome(WithSession(<<call, Table(Labels(GroupFields, resp.val), resp.n)>>,
                                      "end"), 0)

\* A group callback that checks the domain before it looks at the subcommand.
groups_domain_first(p) ==
    /\ pc[p] = "start"
    /\ \E sub \in Subcommands \cup {NoneVal}, domain_name \in DomainNames \cup {NoneVal},
          resp \in GroupListResults :
         IF domain_name = NoneVal \/ sub = NoneVal
         THEN FinishWith(p, [frame[p] EXCEPT !.handler = "groups",
                                              !.invoked_subcommand = sub,
                                              !.domain_name = domain_name],
                         groups_run(domain_name, resp))
         ELSE /\ pc' = [pc EXCEPT ![p] = "subcommand"]
              /\ frame' = [frame EXCEPT ![p].handler = "groups",
                                        ![p].invoked_subcommand = sub,
                                        ![p].domain_name = domain_name]
              /\ UNCHANGED <<trace, exit_code>>
    /\ UNCHANGED <<file, file0, writes>>

\* groups(ctx, domain_name): the callback of the group; click then runs the
\* invoked subcommand, if any.
groups(p) ==
    /\ pc[p] = "start"
    /\ \E sub \in Subcommands \cup {NoneVal}, domain_name \in DomainNames \cup {NoneVal},
          resp \in GroupListResults :
         IF sub # NoneVal
         THEN /\ pc' = [pc EXCEPT ![p] = "subcommand"]
              /\ frame' = [frame EXCEPT ![p].handler = "groups",
                                        ![p].invoked_subcommand = sub,
                                        ![p].domain_name = domain_name]
              /\ UNCHANGED <<trace, exit_code>>
         ELSE FinishWith(p, [frame[p] EXCEPT !.handler = "groups",
                                              !.invoked_subcommand = sub,
                                              !.domain_name = domain_name],
                         groups_run(domain_name, resp))
    /\ UNCHANGED <<file, file0, writes>>

\* the {ok, msg} envelope of a mutation; for create, the created group too
OkResults(item) ==
    Raises \cup {Ret("fail", <<m>>, 0) : m \in Msgs} \cup {Ret("ok", item, 0)}

\* The handlers of the five subcommands share one shape: one call, the
\* exception handler, the ok check, the confirmation.
\* An ok check that is missing: the confirmation is printed whatever ok is.
Mutation_unchecked(what, arg, data, failure, success) ==
    LET call == Call(what, arg, data)
    IN  IF data.tag = "raise"
        THEN Outcome(WithSession(<<call, P("print_error", data.val)>>, "SystemExit"), 1)
        ELSE Outcome(WithSession(<<call, P("print", success)>>, "end"), 0)

Mutation(what, arg, data, failure, success) ==
    LET call == Call(what, arg, data)
    IN  IF data.tag = "raise"
        THEN Outcome(WithSession(<<call, P("print_error", data.val)>>, "SystemExit"), 1)
        ELSE IF data.tag # "ok"
        THEN Outcome(WithSession(<<call, P("print_fail", <<failure>> \o data.val)>>,
                                 "SystemExit"), 1)
        ELSE Outcome(WithSession(<<call, P("print", success)>>, "end"), 0)

Subcommand(p, name) ==
    /\ pc[p] = "subcommand"
    /\ frame[p].invoked_subcommand = name

add(p) ==
    /\ Subcommand(p, "add")
    /\ \E domain_name \in DomainNames, name \in GroupNames :
       \E data \in OkResults(<<name, domain_name>>) :
         Finish(p, "add",
                Mutation("Group.create", <<domain_name, name>>, data,
                         "Group creation has failed: ",
                         IF data.tag = "ok"
                         THEN <<"Group name ", data.val[1], " is created in domain ",
                                data.val[2], ".">>
                         ELSE <<>>))
    /\ UNCHANGED <<file, file0, writes>>

groups_update(p) ==
    /\ Subcommand(p, "update")
    /\ \E gid \in Gids, name \in GroupNames \cup {NoneVal}, data \in OkResults(<<>>) :
         Finish(p, "update",
                Mutation("Group.update", <<gid, name>>, data,
                         "Group update has failed: ",
                         <<"Group ", name, " is updated.">>))
    /\ UNCHANGED <<file, file0, writes>>

groups_delete(p) ==
    /\ Subcommand(p, "delete")
    /\ \E gid \in Gids, data \in OkResults(<<>>) :
         Finish(p, "delete",
                Mutation("Group.delete", <<gid>>, data,
                         "Group deletion has failed: ",
                         <<"Group is deleted: ", gid, ".">>))
    /\ UNCHANGED <<file, file0, writes>>

add_users(p) ==
    /\ Subcommand(p, "add_users")
    /\ \E gid \in Gids, data \in OkResults(<<>>) :
         Finish(p, "add_users",
                Mutation("Group.add_users", <<gid>>, data,
                         "Error on adding users to group: ",
                         <<"Users are added to the group">>))
    /\ UNCHANGED <<file, file0, writes>>

remove_users(p) ==
    /\ Subcommand(p, "remove_users")
    /\ \E gid \in Gids, data \in OkResults(<<>>) :
         Finish(p, "remove_users",
                Mutation("Group.remove_users", <<gid>>, data,
                         "Error on removing users to group: ",
                         <<"Users are removed from the group">>))
    /\ UNCHANGED <<file, file0, writes>>

(* ====================== cli/admin/sessions.py ========================== *)

StatusChoices == {"RUNNING", "TERMINATED", "ALL"}
AccessKeys == {"AKIA"}
SessionIds == {"s1"}

\* the query text: which variables it declares
SessionsQuery(access_key) ==
    IF access_key = NoneVal
    THEN "query($status:String) { compute_sessions(status:$status) { $fields } }"
    ELSE "query($ak:String, $status:String) { compute_sessions(access_key:$ak, status:$status) { $fields } }"

\* sessions(args), with `resp` what session.Admin.query does: for a result,
\* n is the length of resp['compute_sessions']
sessions_run(status, access_key, resp) ==
    LET v == <<IF status # "ALL" THEN status ELSE NoneVal, access_key>>
        call == Call("Admin.query", <<SessionsQuery(access_key)>> \o v, resp)
    IN  IF resp.tag = "raise"
        THEN Outcome(WithSession(<<call, P("print_error", resp.val)>>, "SystemExit"), 1)
        ELSE IF resp.n = 0
        THEN Outcome(WithSession(<<call, P("print",
                         <<"There are no compute sessions currently running.">>)>>,
                                 "return"), 0)
        ELSE Outcome(WithSession(<<call, Table(<<"Session ID", "Lang/runtime", "Tag",
                         "Created At", "Terminated At", "Status", "CPU Cores",
                         "CPU Used (ns)", "Total Memory (MiB)", "Used Memory (MiB)",
                         "GPU Cores">>, resp.n)>>, "end"), 0)

sessions(p) ==
    /\ pc[p] = "start"
    /\ \E status \in StatusChoices, access_key \in AccessKeys \cup {NoneVal},
          resp \in Raises \cup {Ret("ok", <<>>, n) : n \in 0..2} :
         Finish(p, "sessions", sessions_run(status, access_key, resp))
    /\ UNCHANGED <<file, file0, writes>>

\* session(args) that takes an absent session for an error, as group does
session_run_exits(sess_id_or_alias, resp) ==
    LET call == Call("Admin.query", <<"query($sess_id:String) { compute_session(sess_id:$sess_id) { $fields } }",
                                      sess_id_or_alias>>, resp)
    IN  IF resp.tag = "raise"
        THEN Outcome(WithSession(<<call, P("print_error", resp.val)>>, "SystemExit"), 1)
        ELSE IF resp.val[1] = NoneVal
        THEN Outcome(WithSession(<<call, P("print",
                         <<"There is no such running compute session.">>)>>,
                                 "SystemExit"), 1)
        ELSE Outcome(WithSession(<<call, P("print", <<"Session detail:\n---------------">>),
                                   P("print", <<"Session ID", ": ", resp.val[1]>>),
                                   E("listing", "print", <<>>, "", <<>>, 21)>>,
                                 "end"), 0)

\* session(args), with `resp` what session.Admin.query does: for a result,
\* val[1] is resp['compute_session']['sess_id']
session_run(sess_id_or_alias, resp) ==
    LET call == Call("Admin.query", <<"query($sess_id:String) { compute_session(sess_id:$sess_id) { $fields } }",
                                      sess_id_or_alias>>, resp)
    IN  IF resp.tag = "raise"
        THEN Outcome(WithSession(<<call, P("print_error", resp.val)>>, "SystemExit"), 1)
        ELSE IF resp.val[1] = NoneVal
        THEN Outcome(WithSession(<<call, P("print",
                         <<"There is no such running compute session.">>)>>,
                                 "return"), 0)
        ELSE Outcome(WithSession(<<call, P("print", <<"Session detail:\n---------------">>),
                                   P("print", <<"Session ID", ": ", resp.val[1]>>),
                                   E("listing", "print", <<>>, "", <<>>, 21)>>,
                                 "end"), 0)

session(p) ==
    /\ pc[p] = "start"
    /\ \E name \in SessionIds,
          resp \in Raises \cup {Ret("ok", <<id>>, 0) : id \in SessionIds \cup {NoneVal, ""}} :
         Finish(p, "session", session_run(name, resp))
    /\ UNCHANGED <<file, file0, writes>>

(* ========================== cli/manager.py ============================= *)

\* try: with Session() as session: <inside>; <after>  except Exception as e:
\* print_error(e); sys.exit(1) -- `inside` ends with the call whose outcome is r,
\* `after` is what follows the call when it returns.
Guarded(inside, r, after) ==
    IF r.tag = "raise"
    THEN Outcome(WithSession(inside, "exception") \o <<P("print_error", r.val)>>, 1)
    ELSE Outcome(after, 0)

StatusResults == Raises \cup {Ret("ok", <<"running">>, n) : n \in 0..MaxActive}

status_run(resp) ==
    LET call == Call("Manager.status", <<>>, resp)
    IN  Guarded(<<call>>, resp,
                WithSession(<<call, Table(<<"Status", "Active Sessions">>, 1)>>, "end"))

status(p) ==
    /\ pc[p] = "start"
    /\ \E resp \in StatusResults : Finish(p, "status", status_run(resp))
    /\ UNCHANGED <<file, file0, writes>>

Plain == Raises \cup {Ret("ok", <<>>, 0)}

unfreeze_run(resp) ==
    LET call == Call("Manager.unfreeze", <<>>, resp)
    IN  Guarded(<<call>>, resp,
                WithSession(<<call, P("print", <<"Manager is successfully unfrozen.">>)>>,
                            "end"))

unfreeze(p) ==
    /\ pc[p] = "start"
    /\ \E resp \in Plain : Finish(p, "unfreeze", unfreeze_run(resp))
    /\ UNCHANGED <<file, file0, writes>>

Messages == {"", "hello"}

\* get(): val is <<result.get('enabled', False), result.get('message')>>
get_run(result) ==
    LET call == Call("Manager.get_announcement", <<>>, result)
    IN  Guarded(<<call>>, result,
                IF result.val[1] = "True"
                THEN WithSession(<<call, P("print", <<result.val[2]>>)>>, "end")
                ELSE WithSession(<<call, P("print", <<"No announcements.">>)>>, "end"))

get(p) ==
    /\ pc[p] = "start"
    /\ \E result \in Raises \cup {Ret("ok", <<en, m>>, 0) :
                                   en \in {"True", "False"}, m \in {"hello", NoneVal}} :
         Finish(p, "get", get_run(result))
    /\ UNCHANGED <<file, file0, writes>>

\* click.edit(...): the saved text, or None when the editor is closed unsaved
Edit(text) == E("edit", "click.edit", <<>>, "", <<text>>, 0)

\* update(message) that takes an empty text for a cancellation too
announcement_update_falsy(message, edited, resp) ==
    LET ed == IF message = NoneVal THEN <<Edit(edited)>> ELSE <<>>
        msg == IF message = NoneVal THEN edited ELSE message
        call == Call("Manager.update_announcement", <<"enabled=True", msg>>, resp)
    IN  IF msg = NoneVal \/ msg = ""
        THEN Outcome(WithSession(ed \o <<P("print_info", <<"Cancelled">>)>>, "SystemExit"), 1)
        ELSE Guarded(ed \o <<call>>, resp,
                     WithSession(ed \o <<call>>, "end")
                       \o <<P("print_done", <<"Posted new announcement.">>)>>)

\* update(message): `edited` is what the editor returns if it is opened
announcement_update_run(message, edited, resp) ==
    LET ed == IF message = NoneVal THEN <<Edit(edited)>> ELSE <<>>
        msg == IF message = NoneVal THEN edited ELSE message
        call == Call("Manager.update_announcement", <<"enabled=True", msg>>, resp)
    IN  IF msg = NoneVal
        THEN Outcome(WithSession(ed \o <<P("print_info", <<"Cancelled">>)>>, "SystemExit"), 1)
        ELSE Guarded(ed \o <<call>>, resp,
                     WithSession(ed \o <<call>>, "end")
                       \o <<P("print_done", <<"Posted new announcement.">>)>>)

announcement_update(p) ==
    /\ pc[p] = "start"
    /\ \E message \in Messages \cup {NoneVal}, edited \in Messages \cup {NoneVal},
          resp \in Plain :
         FinishWith(p, [frame[p] EXCEPT !.handler = "announcement update",
                                        !.message = message],
                    announcement_update_run(message, edited, resp))
    /\ UNCHANGED <<file, file0, writes>>

\* ask_yn(): the user's answer
Ask(yes) == E("ask", "ask_yn", <<>>, IF yes THEN "yes" ELSE "no", <<>>, 0)

\* delete(), with `yes` the answer to the prompt
announcement_delete_run(yes, resp) ==
    LET call == Call("Manager.update_announcement", <<"enabled=False">>, resp)
    IN  IF ~yes
        THEN Outcome(<<Ask(yes), P("print_info", <<"Cancelled.">>)>>, 1)
        ELSE LET o == Guarded(<<call>>, resp,
                              WithSession(<<call>>, "end")
                                \o <<P("print_done", <<"Deleted announcement.">>)>>)
             IN  Outcome(<<Ask(yes)>> \o o.t, o.code)

announcement_delete(p) ==
    /\ pc[p] = "start"
    /\ \E yes \in BOOLEAN, resp \in Plain :
         Finish(p, "announcement delete", announcement_delete_run(yes, resp))
    /\ UNCHANGED <<file, file0, writes>>

AgentIds == {<<>>, <<"i-1">>}

scheduler_run(op, agent_ids, resp, done) ==
    LET call == Call("Manager.scheduler_op", <<op>> \o agent_ids, resp)
    IN  Guarded(<<call>>, resp, WithSession(<<call>>, "end") \o <<P("print_done", <<done>>)>>)

include_agents(p) ==
    /\ pc[p] = "start"
    /\ \E agent_ids \in AgentIds, resp \in Plain :
         Finish(p, "include_agents",
                scheduler_run("include-agents", agent_ids, resp,
                              "The given agents now accepts new sessions."))
    /\ UNCHANGED <<file, file0, writes>>

exclude_agents(p) ==
    /\ pc[p] = "start"
    /\ \E agent_ids \in AgentIds, resp \in Plain :
         Finish(p, "exclude_agents",
                scheduler_run("exclude-agents", agent_ids, resp,
                              "The given agents will no longer start new sessions."))
    /\ UNCHANGED <<file, file0, writes>>

\* get_resources(scaling_group, group, all): val holds the keys of
\* ret['scaling_groups']
get_resources_run(endpoint_type, scaling_group, grp, all, ret) ==
    LET call == Call("Resource.get_available_resources", <<scaling_group, grp>>, ret)
        head == <<call,
                  P("print", <<"Total remaining resources of scaling group [",
                               scaling_group, "]:">>),
                  P("print", <<"Each resources of scaling groups:">>)>>
        each == [i \in 1..Len(ret.val) |-> P("print", <<"  [", ret.val[i], "]">>)]
        tail == <<P("print", <<"Group limits:">>), P("print", <<"Group using:">>),
                  P("print", <<"Group remaining:">>)>>
    IN  IF endpoint_type # "session"
        THEN Outcome(<<P("print_warn",
                         <<"To use get-resources, your endpoint type must be \"session\".">>),
                       Uncaught("click.Abort", <<>>)>>, 1)
        ELSE IF ret.tag = "raise"
        THEN Outcome(WithSession(<<call>>, "exception") \o <<Uncaught("Exception", ret.val)>>, 1)
        ELSE IF all
        THEN Outcome(WithSession(head \o each \o tail, "end"), 0)
        ELSE IF scaling_group \in Range(ret.val)
        THEN Outcome(WithSession(head \o <<P("print", <<"  [", scaling_group, "]">>)>> \o tail,
                                 "end"), 0)
        ELSE Outcome(WithSession(head \o <<P("print", <<"  [", scaling_group, "]">>)>>,
                                 "exception")
                       \o <<Uncaught("KeyError", <<scaling_group>>)>>, 1)

get_resources(p) ==
    /\ pc[p] = "start"
    /\ \E endpoint_type \in {"session", "api"}, scaling_group \in {"default"},
          all \in BOOLEAN,
          ret \in Raises \cup {Ret("ok", sgs, 0) : sgs \in {<<"default">>, <<"default", "gpu">>, <<"gpu">>}} :
         Finish(p, "get_resources",
                get_resources_run(endpoint_type, scaling_group, "default", all, ret))
    /\ UNCHANGED <<file, file0, writes>>

(* ------------------------- manager freeze ------------------------------ *)

\* the process carries on where it is, with `t` appended to its trace
Go(p, next, t) ==
    /\ pc' = [pc EXCEPT ![p] = next]
    /\ trace' = [trace EXCEPT ![p] = @ \o t]

\* freeze that treats the two flags together as an error of the process
freeze_exits(p) ==
    /\ pc[p] = "start"
    /\ \E wait \in BOOLEAN, force_kill \in BOOLEAN :
         /\ frame' = [frame EXCEPT ![p].handler = "freeze", ![p].wait = wait,
                                   ![p].force_kill = force_kill]
         /\ IF wait /\ force_kill
            THEN /\ Go(p, "done",
                       <<P("stderr", <<"You cannot use both --wait and --force-kill options ",
                                       "at the same time.">>)>>)
                 /\ exit_code' = [exit_code EXCEPT ![p] = 1]
            ELSE /\ Go(p, IF wait THEN "freeze_poll" ELSE "freeze_call", <<Enter>>)
                 /\ UNCHANGED exit_code
    /\ UNCHANGED <<file, file0, writes>>

\* freeze(wait, force_kill) up to the first statement inside the session
freeze(p) ==
    /\ pc[p] = "start"
    /\ \E wait \in BOOLEAN, force_kill \in BOOLEAN :
         /\ frame' = [frame EXCEPT ![p].handler = "freeze", ![p].wait = wait,
                                   ![p].force_kill = force_kill]
         /\ IF wait /\ force_kill
            THEN Go(p, "done",
                    <<P("stderr", <<"You cannot use both --wait and --force-kill options ",
                                    "at the same time.">>)>>)
            ELSE Go(p, IF wait THEN "freeze_poll" ELSE "freeze_call", <<Enter>>)
    /\ UNCHANGED <<exit_code, file, file0, writes>>

\* a loop that also leaves when the count is not above a threshold of one
freeze_poll_le1(p) ==
    /\ pc[p] = "freeze_poll"
    /\ Count(trace[p], "call", "Manager.status") < MaxPolls
    /\ \E resp \in StatusResults :
         LET call == Call("Manager.status", <<>>, resp)
         IN  IF resp.tag = "raise"
             THEN /\ Go(p, "done", <<call, Exit, P("print_error", resp.val)>>)
                  /\ exit_code' = [exit_code EXCEPT ![p] = 1]
             ELSE IF resp.n <= 1
             THEN /\ Go(p, "freeze_call",
                        <<call, P("print_done", <<"All sessions are terminated.">>)>>)
                  /\ UNCHANGED exit_code
             ELSE /\ Go(p, "freeze_poll",
                        <<call,
                          P("print_wait", <<"Waiting for all sessions terminated... (",
                                            ToString(resp.n), " left)">>),
                          E("sleep", "time.sleep", <<>>, "", <<>>, SleepSeconds)>>)
                  /\ UNCHANGED exit_code
    /\ UNCHANGED <<frame, file, file0, writes>>

\* a loop that reports a failed poll and polls again
freeze_poll_retry(p) ==
    /\ pc[p] = "freeze_poll"
    /\ Count(trace[p], "call", "Manager.status") < MaxPolls
    /\ \E resp \in StatusResults :
         LET call == Call("Manager.status", <<>>, resp)
         IN  IF resp.tag = "raise"
             THEN /\ Go(p, "freeze_poll", <<call, P("print_error", resp.val)>>)
                  /\ UNCHANGED exit_code
             ELSE IF resp.n = 0
             THEN /\ Go(p, "freeze_call",
                        <<call, P("print_done", <<"All sessions are terminated.">>)>>)
                  /\ UNCHANGED exit_code
             ELSE /\ Go(p, "freeze_poll",
                        <<call,
                          P("print_wait", <<"Waiting for all sessions terminated... (",
                                            ToString(resp.n), " left)">>),
                          E("sleep", "time.sleep", <<>>, "", <<>>, SleepSeconds)>>)
                  /\ UNCHANGED exit_code
    /\ UNCHANGED <<frame, file, file0, writes>>

\* one turn of `while True:` in freeze
freeze_poll(p) ==
    /\ pc[p] = "freeze_poll"
    /\ Count(trace[p], "call", "Manager.status") < MaxPolls
    /\ \E resp \in StatusResults :
         LET call == Call("Manager.status", <<>>, resp)
         IN  IF resp.tag = "raise"
             THEN /\ Go(p, "done", <<call, Exit, P("print_error", resp.val)>>)
                  /\ exit_code' = [exit_code EXCEPT ![p] = 1]
             ELSE IF resp.n = 0
             THEN /\ Go(p, "freeze_call",
                        <<call, P("print_done", <<"All sessions are terminated.">>)>>)
                  /\ UNCHANGED exit_code
             ELSE /\ Go(p, "freeze_poll",
                        <<call,
                          P("print_wait", <<"Waiting for all sessions terminated... (",
                                            ToString(resp.n), " left)">>),
                          E("sleep", "time.sleep", <<>>, "", <<>>, SleepSeconds)>>)
                  /\ UNCHANGED exit_code
    /\ UNCHANGED <<frame, file, file0, writes>>

\* a loop that gives up waiting after MaxPolls polls and goes on to freeze
freeze_poll_on_bounded(p) ==
    /\ pc[p] = "freeze_poll"
    /\ Count(trace[p], "call", "Manager.status") >= MaxPolls
    /\ Go(p, "freeze_call", <<P("print_done", <<"All sessions are terminated.">>)>>)
    /\ UNCHANGED <<frame, exit_code, file, file0, writes>>

\* `while True:` in freeze has no end of its own: the turns after the MaxPolls
\* that the trace follows. A turn whose poll returns a non-zero count is not
\* added to the trace; frame.more keeps the parity of the number of such turns.
freeze_poll_on(p) ==
    /\ pc[p] = "freeze_poll"
    /\ Count(trace[p], "call", "Manager.status") >= MaxPolls
    /\ \E resp \in StatusResults :
         LET call == Call("Manager.status", <<>>, resp)
         IN  IF resp.tag = "raise"
             THEN /\ Go(p, "done", <<call, Exit, P("print_error", resp.val)>>)
                  /\ exit_code' = [exit_code EXCEPT ![p] = 1]
                  /\ UNCHANGED frame
             ELSE IF resp.n = 0
             THEN /\ Go(p, "freeze_call",
                        <<call, P("print_done", <<"All sessions are terminated.">>)>>)
                  /\ UNCHANGED <<frame, exit_code>>
             ELSE /\ frame' = [frame EXCEPT ![p].more = 1 - @]
                  /\ UNCHANGED <<pc, trace, exit_code>>
    /\ UNCHANGED <<file, file0, writes>>

\* freeze that announces the kill as done before Manager.freeze is called
freeze_call_early(p) ==
    /\ pc[p] = "freeze_call"
    /\ \E resp \in Plain :
         LET fk == frame[p].force_kill
             call == Call("Manager.freeze",
                          <<IF fk THEN "force_kill=True" ELSE "force_kill=False">>, resp)
             pre == IF fk THEN <<P("print_wait", <<"Killing all sessions...">>),
                                 P("print_done", <<"All sessions are killed.">>)>>
                    ELSE <<>>
         IN  IF resp.tag = "raise"
             THEN /\ Go(p, "done", pre \o <<call, Exit, P("print_error", resp.val)>>)
                  /\ exit_code' = [exit_code EXCEPT ![p] = 1]
             ELSE /\ Go(p, "done",
                        pre \o <<call>>
                          \o <<P("print", <<"Manager is successfully frozen.">>), Exit>>)
                  /\ UNCHANGED exit_code
    /\ UNCHANGED <<frame, file, file0, writes>>

\* freeze from `if force_kill:` to its end
freeze_call(p) ==
    /\ pc[p] = "freeze_call"
    /\ \E resp \in Plain :
         LET fk == frame[p].force_kill
             call == Call("Manager.freeze",
                          <<IF fk THEN "force_kill=True" ELSE "force_kill=False">>, resp)
             pre == IF fk THEN <<P("print_wait", <<"Killing all sessions...">>)>> ELSE <<>>
             post == IF fk THEN <<P("print_done", <<"All sessions are killed.">>)>> ELSE <<>>
         IN  IF resp.tag = "raise"
             THEN /\ Go(p, "done", pre \o <<call, Exit, P("print_error", resp.val)>>)
                  /\ exit_code' = [exit_code EXCEPT ![p] = 1]
             ELSE /\ Go(p, "done",
                        pre \o <<call>> \o post
                          \o <<P("print", <<"Manager is successfully frozen.">>), Exit>>)
                  /\ UNCHANGED exit_code
    /\ UNCHANGED <<frame, file, file0, writes>>

(* ----------------------- announcement dismiss -------------------------- *)

\* The text of announcement.json: what kind of content it is and, for the text
\* of a JSON object, its "key": value pairs as written, in order.
File(kind, pairs) == [kind |-> kind, pairs |-> pairs]

Keys == {"dismissed", "hash"}
Values == {"true", "false", "\"a1\""}

ObjectTexts ==
    {File("object", s) : s \in UNION {[1..n -> Keys \X Values] : n \in 0..MaxPairs}}

\* no file; bytes that are not text; text that is not JSON; a file of length
\* zero; JSON that is not an object (a list, a number, null)
OtherFiles ==
    {File(k, <<>>) : k \in {"missing", "undecodable", "garbage", "empty", "nonobject"}}

Files == ObjectTexts \cup OtherFiles

HasKey(d, k) == \E i \in 1..Len(d) : d[i][1] = k

\* d[k] = v on a Python dict: a new key goes last, an old key keeps its place
SetItem(d, k, v) ==
    IF HasKey(d, k)
    THEN [i \in 1..Len(d) |-> IF d[i][1] = k THEN <<k, v>> ELSE d[i]]
    ELSE Append(d, <<k, v>>)

\* the dict the pairs of an object's text parse to: of a repeated key the last
\* value counts
RECURSIVE Loads(_)
Loads(pairs) ==
    IF pairs = <<>> THEN <<>>
    ELSE LET last == pairs[Len(pairs)]
         IN  SetItem(Loads(SubSeq(pairs, 1, Len(pairs) - 1)), last[1], last[2])

\* open(path, 'rb') and json.load(f): the exception raised, or the value
json_load(f) ==
    IF f.kind = "missing" THEN [exc |-> "IOError", kind |-> "", state |-> <<>>]
    ELSE IF f.kind = "undecodable"
    THEN [exc |-> "UnicodeDecodeError", kind |-> "", state |-> <<>>]
    ELSE IF f.kind \in {"garbage", "empty"}
    THEN [exc |-> "JSONDecodeError", kind |-> "", state |-> <<>>]
    ELSE IF f.kind = "nonobject"
    THEN [exc |-> "", kind |-> "nonobject", state |-> <<>>]
    ELSE [exc |-> "", kind |-> "dict", state |-> Loads(f.pairs)]

\* json.dump(state, f) and the close of f: the text written
json_dump(state) == File("object", state)

\* the value of key k in dict d, NoneVal if absent
Lookup(d, k) ==
    IF HasKey(d, k) THEN d[CHOOSE i \in 1..Len(d) : d[i][1] = k][2] ELSE NoneVal

KeysOf(d) == {d[i][1] : i \in 1..Len(d)}

\* dismiss(): the confirmation prompt
dismiss(p) ==
    /\ pc[p] = "start"
    /\ frame' = [frame EXCEPT ![p].handler = "dismiss"]
    /\ \E yes \in BOOLEAN :
         IF ~yes
         THEN /\ Go(p, "done", <<Ask(yes), P("print_info", <<"Cancelled.">>)>>)
              /\ exit_code' = [exit_code EXCEPT ![p] = 1]
         ELSE /\ Go(p, "dismiss_read", <<Ask(yes)>>)
              /\ UNCHANGED exit_code
    /\ UNCHANGED <<file, file0, writes>>

\* the handlers of dismiss: IOError and JSONDecodeError are reported as
\* nothing seen yet, every other exception through print_error
DismissFailed(p, exc) ==
    /\ Go(p, "done",
          <<E("read", "announcement.json", <<file.kind>>, exc, <<>>, 0),
            IF exc \in {"IOError", "JSONDecodeError"}
            THEN P("print_fail", <<"No announcements seen yet.">>)
            ELSE P("print_error", <<exc>>)>>)
    /\ exit_code' = [exit_code EXCEPT ![p] = 1]
    /\ UNCHANGED frame

\* dismiss that holds a lock on the file from its read to the end of its
\* write: the read waits while another invocation is in between
dismiss_read_locked(p) ==
    /\ pc[p] = "dismiss_read"
    /\ \A q \in Procs \ {p} : pc[q] \notin {"dismiss_open", "dismiss_dump"}
    /\ LET r == json_load(file)
       IN  IF r.exc # "" THEN DismissFailed(p, r.exc)
           ELSE IF r.kind # "dict" THEN DismissFailed(p, "TypeError")
           ELSE /\ Go(p, "dismiss_open",
                      <<E("read", "announcement.json", <<file.kind>>, "ok", <<>>, 0)>>)
                /\ frame' = [frame EXCEPT ![p].state = SetItem(r.state, "dismissed", "true")]
                /\ UNCHANGED exit_code
    /\ UNCHANGED <<file, file0, writes>>

\* the file is read and parsed, and the flag set in the copy
dismiss_read(p) ==
    /\ pc[p] = "dismiss_read"
    /\ LET r == json_load(file)
       IN  IF r.exc # "" THEN DismissFailed(p, r.exc)
           ELSE IF r.kind # "dict" THEN DismissFailed(p, "TypeError")
           ELSE /\ Go(p, "dismiss_open",
                      <<E("read", "announcement.json", <<file.kind>>, "ok", <<>>, 0)>>)
                /\ frame' = [frame EXCEPT ![p].state = SetItem(r.state, "dismissed", "true")]
                /\ UNCHANGED exit_code
    /\ UNCHANGED <<file, file0, writes>>

\* open(path, 'w'): the file is created or cut to length zero
dismiss_open(p) ==
    /\ pc[p] = "dismiss_open"
    /\ file' = File("empty", <<>>)
    /\ Go(p, "dismiss_dump", <<E("truncate", "announcement.json", <<>>, "", <<>>, 0)>>)
    /\ UNCHANGED <<frame, exit_code, file0, writes>>

\* json.dump(state, f), the close of f, the confirmation
dismiss_dump(p) ==
    /\ pc[p] = "dismiss_dump"
    /\ file' = json_dump(frame[p].state)
    /\ Go(p, "done", <<E("write", "announcement.json", <<>>, "", <<>>, 0),
                       P("print_done", <<"Dismissed the last shown announcement.">>)>>)
    /\ UNCHANGED <<frame, exit_code, file0, writes>>

\* Another program (the client when it shows a new announcement) replaces the
\* state file in one step.
NewAnnouncement == << <<"hash", "\"a2\"">>, <<"dismissed", "false">> >>

ExternalWrite ==
    /\ writes < MaxWrites
    /\ writes' = writes + 1
    /\ file' = File("object", NewAnnouncement)
    /\ UNCHANGED <<pc, frame, trace, exit_code, file0>>

(* --------------------------- specifications ---------------------------- *)

\* One invocation of the client, on any state file.
Init ==
    /\ pc = [p \in Procs |-> IF p = 1 THEN "start" ELSE "idle"]
    /\ frame = [p \in Procs |-> NoFrame]
    /\ trace = [p \in Procs |-> <<>>]
    /\ exit_code = [p \in Procs |-> 0]
    /\ file \in Files
    /\ file0 = file
    /\ writes = 0

Next ==
    \E p \in Procs :
        \/ group(p) \/ groups(p) \/ add(p) \/ groups_update(p) \/ groups_delete(p)
        \/ add_users(p) \/ remove_users(p)
        \/ sessions(p) \/ session(p)
        \/ status(p) \/ freeze(p) \/ freeze_poll(p) \/ freeze_call(p) \/ unfreeze(p)
        \/ get(p) \/ announcement_update(p) \/ announcement_delete(p)
        \/ dismiss(p) \/ dismiss_read(p) \/ dismiss_open(p) \/ dismiss_dump(p)
        \/ include_agents(p) \/ exclude_agents(p) \/ get_resources(p)

Spec == Init /\ [][Next]_vars

\* One invocation of manager freeze, followed for as long as it runs: the
\* polling loop of freeze --wait goes on past MaxPolls, and a process that can
\* take a step takes one (the interpreter runs the handler on; what the
\* collaborator answers stays free).
FairNext ==
    \E p \in Procs :
        freeze(p) \/ freeze_poll(p) \/ freeze_poll_on(p) \/ freeze_call(p)

\* freeze never touches the state file: it starts without an object in it
FairInit ==
    /\ pc = [p \in Procs |-> IF p = 1 THEN "start" ELSE "idle"]
    /\ frame = [p \in Procs |-> NoFrame]
    /\ trace = [p \in Procs |-> <<>>]
    /\ exit_code = [p \in Procs |-> 0]
    /\ file \in OtherFiles
    /\ file0 = file
    /\ writes = 0

FairSpec == FairInit /\ [][FairNext]_vars /\ WF_vars(FairNext)

\* Two invocations of announcement dismiss at once on a valid state file, and
\* the other writer of the file.
RaceInit ==
    /\ pc = [p \in Procs |-> "start"]
    /\ frame = [p \in Procs |-> NoFrame]
    /\ trace = [p \in Procs |-> <<>>]
    /\ exit_code = [p \in Procs |-> 0]
    /\ file \in ObjectTexts
    /\ file0 = file
    /\ writes = 0

RaceNext ==
    \/ \E p \in Procs :
        \/ dismiss(p) \/ dismiss_read(p) \/ dismiss_open(p) \/ dismiss_dump(p)
    \/ ExternalWrite

RaceSpec == RaceInit /\ [][RaceNext]_vars

(* ============================ properties =============================== *)

Done(p) == pc[p] = "done"

\* the positions of the events of a kind in a trace
At(t, ev, what) == {i \in 1..Len(t) : t[i].ev = ev /\ t[i].what = what}

Calls(t) == {i \in 1..Len(t) : t[i].ev = "call"}

\* message `parts` was printed through `routine`
Printed(t, routine, parts) ==
    \E i \in At(t, "print", routine) : t[i].arg = parts

\* the number of sessions open after the first k events
Open(t, k) ==
    Cardinality({i \in 1..k : t[i].ev = "enter"}) - Cardinality({i \in 1..k : t[i].ev = "exit"})

\* C1: whenever a collaborator call raises, the handler itself catches the
\* exception: it is printed through print_error, the exit code is 1, and no
\* exception leaves the handler.
C1_ErrorsRendered ==
    \A p \in Procs :
        Done(p) =>
            \A i \in Calls(trace[p]) :
                trace[p][i].tag = "raise" =>
                    /\ \E j \in At(trace[p], "print", "print_error") :
                           j > i /\ trace[p][j].arg = trace[p][i].res
                    /\ exit_code[p] = 1
                    /\ \A j \in 1..Len(trace[p]) : trace[p][j].ev # "uncaught"

GroupMutations ==
    {"Group.create", "Group.update", "Group.delete", "Group.add_users",
     "Group.remove_users"}

\* C2: in groups add, update, delete, add-users and remove-users, an ok:false
\* result gives a print_fail message that holds the server's msg verbatim and
\* exit code 1, without the confirmation; the confirmation is printed, with
\* exit code 0, only for ok:true.
C2_OkFalseFails ==
    \A p \in Procs :
        Done(p) =>
            \A i \in Calls(trace[p]) :
                trace[p][i].what \in GroupMutations =>
                    LET t == trace[p]
                        confirmed == At(t, "print", "print") # {}
                    IN  /\ t[i].tag = "fail" =>
                              /\ \E j \in At(t, "print", "print_fail") :
                                     j > i /\ t[i].res[1] \in Range(t[j].arg)
                              /\ exit_code[p] = 1
                              /\ ~confirmed
                        /\ confirmed => t[i].tag = "ok" /\ exit_code[p] = 0
                        /\ t[i].tag = "ok" => confirmed /\ exit_code[p] = 0

C2_Witness ==
    \E p \in Procs :
        /\ Done(p)
        /\ frame[p].handler = "remove_users"
        /\ \E i \in At(trace[p], "call", "Group.remove_users") :
               trace[p][i].tag = "fail" /\ trace[p][i].res = <<"permission denied">>
        /\ Printed(trace[p], "print_fail",
                   <<"Error on removing users to group: ", "permission denied">>)
        /\ exit_code[p] = 1

\* the active-session counts the status polls returned, in order
RECURSIVE StatusSeq(_)
StatusSeq(t) ==
    IF t = <<>> THEN <<>>
    ELSE LET e == t[Len(t)]
             front == StatusSeq(SubSeq(t, 1, Len(t) - 1))
         IN  IF e.ev = "call" /\ e.what = "Manager.status" /\ e.tag = "ok"
             THEN Append(front, e.n) ELSE front

\* C3: in freeze --wait, Manager.freeze is called only after a status poll
\* returned 0; the loop is left at the first poll that returns 0 and at no
\* other count; every non-zero poll is followed by a sleep of 3 seconds and
\* then by the next poll; and the status sequence 2, 1, 0 gives three polls,
\* two sleeps and then one Manager.freeze(force_kill=False).
C3_FreezeWait ==
    \A p \in Procs :
        (frame[p].handler = "freeze" /\ frame[p].wait /\ ~frame[p].force_kill) =>
            LET t == trace[p]
                polls == At(t, "call", "Manager.status")
                sleeps == At(t, "sleep", "time.sleep")
                freezes == At(t, "call", "Manager.freeze")
            IN  /\ \A j \in freezes :
                       /\ \E i \in polls : i < j /\ t[i].tag = "ok" /\ t[i].n = 0
                       /\ t[j].arg = <<"force_kill=False">>
                /\ \A i \in polls :
                       /\ (t[i].tag = "ok" /\ t[i].n = 0) =>
                              \A k \in polls \cup sleeps : k <= i
                       /\ (t[i].tag = "ok" /\ t[i].n # 0) =>
                              /\ \A j \in freezes : j > i + 2
                              /\ i + 2 \in sleeps /\ t[i + 2].n = SleepSeconds
                              /\ \A k \in polls : k > i => k > i + 2
                              /\ Len(t) > i + 2 => i + 3 \in polls
                              /\ Done(p) => Len(t) > i + 2
                /\ \A i \in sleeps : i - 2 \in polls /\ t[i - 2].n # 0
                /\ (Done(p) /\ StatusSeq(t) = <<2, 1, 0>> /\ exit_code[p] = 0) =>
                       /\ Cardinality(polls) = 3
                       /\ Cardinality(sleeps) = 2
                       /\ Cardinality(freezes) = 1
                       /\ \A j \in freezes : \A i \in polls \cup sleeps : i < j

C3_Witness ==
    \E p \in Procs :
        /\ Done(p)
        /\ frame[p].handler = "freeze" /\ frame[p].wait
        /\ StatusSeq(trace[p]) = <<2, 1, 0>>
        /\ Cardinality(At(trace[p], "sleep", "time.sleep")) = 2
        /\ \E j \in At(trace[p], "call", "Manager.freeze") : trace[p][j].tag = "ok"
        /\ exit_code[p] = 0

\* C4: freeze with both --wait and --force-kill opens no session, makes no
\* collaborator call, prints only the usage message and returns: the exit code
\* stays 0.
C4_BothFlags ==
    \A p \in Procs :
        (frame[p].handler = "freeze" /\ frame[p].wait /\ frame[p].force_kill) =>
            /\ Done(p)
            /\ trace[p] = <<P("stderr", <<"You cannot use both --wait and --force-kill options ",
                                          "at the same time.">>)>>
            /\ exit_code[p] = 0

C4_Witness ==
    \E p \in Procs :
        /\ Done(p)
        /\ frame[p].handler = "freeze" /\ frame[p].wait /\ frame[p].force_kill
        /\ Len(trace[p]) = 1 /\ trace[p][1].what = "stderr"
        /\ Calls(trace[p]) = {}

\* C5: an invocation never holds more than one open session, and when the
\* process has ended every session it opened is closed again, however the
\* with block was left.
C5_SessionsClosed ==
    \A p \in Procs :
        /\ \A k \in 0..Len(trace[p]) : Open(trace[p], k) \in {0, 1}
        /\ Done(p) => Open(trace[p], Len(trace[p])) = 0
        /\ \A i \in Calls(trace[p]) : Open(trace[p], i) = 1

\* a session was opened and the block left by sys.exit(1) after a raised call
C5_Witness ==
    \E p \in Procs :
        /\ Done(p)
        /\ frame[p].handler = "group"
        /\ exit_code[p] = 1
        /\ \E i \in Calls(trace[p]) : trace[p][i].tag = "raise"
        /\ At(trace[p], "enter", "Session") # {}
        /\ Open(trace[p], Len(trace[p])) = 0

Asked(t, answer) == \E i \in At(t, "ask", "ask_yn") : t[i].tag = answer

\* C6: dismiss, once confirmed: on a state file that is missing or does not
\* parse as JSON the file is left as it was, 'No announcements seen yet.' is
\* printed and the exit code is 1; on a JSON object the file afterwards holds
\* the same object with dismissed = true added or overwritten and nothing
\* else changed, and dismissing that file again gives the same file.
C6_Dismiss ==
    \A p \in Procs :
        (Done(p) /\ frame[p].handler = "dismiss" /\ Asked(trace[p], "yes")) =>
            /\ file0.kind \in {"missing", "undecodable", "garbage", "empty"} =>
                   /\ file = file0
                   /\ Printed(trace[p], "print_fail", <<"No announcements seen yet.">>)
                   /\ exit_code[p] = 1
            /\ file0.kind = "object" =>
                   LET before == Loads(file0.pairs)
                       r == json_load(file)
                   IN  /\ r.exc = "" /\ r.kind = "dict"
                       /\ KeysOf(r.state) = KeysOf(before) \cup {"dismissed"}
                       /\ Lookup(r.state, "dismissed") = "true"
                       /\ \A k \in KeysOf(before) \ {"dismissed"} :
                              Lookup(r.state, k) = Lookup(before, k)
                       /\ json_dump(SetItem(r.state, "dismissed", "true")) = file
                       /\ exit_code[p] = 0

\* C7: dismiss holds no lock between its read and its write: while one
\* invocation is between the two, the read and the truncating open of another
\* stay enabled; a file of length zero is seen only while some invocation is
\* between its open for writing and its write; and on a file that was valid
\* an invocation fails only by reading it in that window, with
\* 'No announcements seen yet.'.
C7_NoLock ==
    /\ \A p \in Procs : \A q \in Procs \ {p} :
           pc[p] \in {"dismiss_open", "dismiss_dump"} =>
               /\ pc[q] = "dismiss_read" => ENABLED dismiss_read(q)
               /\ pc[q] = "dismiss_open" => ENABLED dismiss_open(q)
    /\ file.kind = "empty" => \E p \in Procs : pc[p] = "dismiss_dump"
    /\ \A p \in Procs : \A i \in At(trace[p], "read", "announcement.json") :
           trace[p][i].tag # "ok" =>
               /\ trace[p][i].tag = "JSONDecodeError"
               /\ trace[p][i].arg = <<"empty">>
               /\ Printed(trace[p], "print_fail", <<"No announcements seen yet.">>)
               /\ exit_code[p] = 1

\* Both anomalies in one run: one invocation failed on the truncated file, and
\* the other wrote back its stale copy over the announcement recorded after
\* its read. In a serial order nobody fails and the new announcement's hash
\* stays in the file.
C7_Witness ==
    \E p \in Procs : \E q \in Procs \ {p} :
        /\ Done(p) /\ Done(q)
        /\ file0.kind = "object"
        /\ Printed(trace[q], "print_fail", <<"No announcements seen yet.">>)
        /\ Printed(trace[p], "print_done", <<"Dismissed the last shown announcement.">>)
        /\ writes = 1
        /\ file.kind = "object"
        /\ Lookup(Loads(file.pairs), "hash") # "\"a2\""

\* the collaborator call each subcommand of groups makes
SubCall(name) ==
    CASE name = "add" -> "Group.create"
      [] name = "update" -> "Group.update"
      [] name = "delete" -> "Group.delete"
      [] name = "add_users" -> "Group.add_users"
      [] name = "remove_users" -> "Group.remove_users"

Guidance ==
    P("print", <<"Domain name should be given with \"-d\" option. ",
                 "If you want to see help for groups command, append \"-h\" option.">>)

\* C8: groups without a subcommand and without --domain-name prints the
\* guidance and exits 1, with no session and no Group.list; with a subcommand
\* the group callback returns before the domain check, prints nothing, calls
\* nothing, and the subcommand runs, with or without -d.
C8_Groups ==
    \A p \in Procs :
        /\ (Done(p) /\ frame[p].handler = "groups" /\ frame[p].invoked_subcommand = NoneVal
                    /\ frame[p].domain_name = NoneVal) =>
               trace[p] = <<Guidance>> /\ exit_code[p] = 1
        /\ pc[p] = "subcommand" =>
               /\ frame[p].invoked_subcommand \in Subcommands
               /\ trace[p] = <<>>
               /\ exit_code[p] = 0
        /\ frame[p].invoked_subcommand # NoneVal =>
               /\ pc[p] \in {"subcommand", "done"}
               /\ At(trace[p], "call", "Group.list") = {}
               /\ ~Printed(trace[p], "print", Guidance.arg)
               /\ Done(p) =>
                      /\ frame[p].handler = frame[p].invoked_subcommand
                      /\ Cardinality(At(trace[p], "call",
                                        SubCall(frame[p].invoked_subcommand))) = 1

\* groups add without -d has run
C8_Witness ==
    \E p \in Procs :
        /\ Done(p)
        /\ frame[p].invoked_subcommand = "add"
        /\ frame[p].domain_name = NoneVal
        /\ \E i \in At(trace[p], "call", "Group.create") : trace[p][i].tag = "ok"
        /\ exit_code[p] = 0

Cancelled(t, text) == Printed(t, "print_info", <<text>>)

\* What C9 says of the three commands, with `cancels` the editor results that
\* count as a cancellation of announcement update.
Cancellation(cancels) ==
    \A p \in Procs :
        Done(p) =>
            LET t == trace[p]
                edits == At(t, "edit", "click.edit")
                posts == At(t, "call", "Manager.update_announcement")
            IN  /\ frame[p].handler = "announcement update" =>
                       /\ (frame[p].message = NoneVal) = (edits # {})
                       /\ \A i \in edits :
                              IF t[i].res[1] \in cancels
                              THEN /\ Cancelled(t, "Cancelled")
                                   /\ exit_code[p] = 1
                                   /\ posts = {}
                              ELSE /\ Cardinality(posts) = 1
                                   /\ \A j \in posts :
                                          t[j].arg = <<"enabled=True", t[i].res[1]>>
                       /\ edits = {} =>
                              /\ Cardinality(posts) = 1
                              /\ \A j \in posts :
                                     t[j].arg = <<"enabled=True", frame[p].message>>
                /\ frame[p].handler \in {"announcement delete", "dismiss"} =>
                       /\ Asked(t, "no") =>
                              /\ t = <<Ask(FALSE), P("print_info", <<"Cancelled.">>)>>
                              /\ exit_code[p] = 1
                              /\ file = file0
                       /\ (frame[p].handler = "announcement delete" /\ Asked(t, "yes")) =>
                              /\ Cardinality(posts) = 1
                              /\ \A j \in posts : t[j].arg = <<"enabled=False">>

NoListing(t) ==
    /\ At(t, "table", "tabulate") = {}
    /\ At(t, "listing", "print") = {}
    /\ ~Printed(t, "print", <<"Session detail:\n---------------">>)

\* What C10 says, with `absent` the session ids of a response that count as
\* no session.
EmptyResults(absent) ==
    \A p \in Procs :
        Done(p) =>
            \A i \in Calls(trace[p]) :
                LET t == trace[p]
                    e == t[i]
                    Informs(text, code) ==
                        /\ Printed(t, "print", <<text>>)
                        /\ exit_code[p] = code
                        /\ NoListing(t)
                IN  /\ (e.what = "Group.list" /\ e.tag = "ok" /\ e.n = 0) =>
                           Informs("There is no group.", 0)
                    /\ (frame[p].handler = "sessions" /\ e.tag = "ok" /\ e.n = 0) =>
                           Informs("There are no compute sessions currently running.", 0)
                    /\ (e.what = "Group.detail" /\ e.tag = "none") =>
                           Informs("There is no such group.", 1)
                    /\ (frame[p].handler = "session" /\ e.tag = "ok" /\ e.res[1] \in absent) =>
                           Informs("There is no such running compute session.", 0)
                    /\ (e.what = "Manager.get_announcement" /\ e.tag = "ok"
                            /\ e.res[1] # "True") =>
                           Informs("No announcements.", 0)

\* C10 as stated: an empty groups or sessions list is reported with exit code
\* 0, an absent group with exit code 1, a session response with a null or
\* empty session id and disabled announcements with exit code 0; no table or
\* detail listing is printed in any of these cases.
C10_Original == EmptyResults({NoneVal, ""})

\* C10, amended: for session show, only a null session id counts as absent;
\* a response with an empty-string id is printed as a detail listing.
C10_EmptyResults == EmptyResults({NoneVal})

\* session show on a response with a null session id
C10_Witness ==
    \E p \in Procs :
        /\ Done(p)
        /\ frame[p].handler = "session"
        /\ \E i \in At(trace[p], "call", "Admin.query") :
               trace[p][i].tag = "ok" /\ trace[p][i].res = <<NoneVal>>
        /\ Printed(trace[p], "print", <<"There is no such running compute session.">>)
        /\ exit_code[p] = 0

\* a freeze --wait invocation
Waits(p) == frame[p].handler = "freeze" /\ frame[p].wait /\ ~frame[p].force_kill

PollsWith(t, tag) == {i \in At(t, "call", "Manager.status") : t[i].tag = tag}

ZeroPolls(t) == {i \in PollsWith(t, "ok") : t[i].n = 0}

\* What C11 says of the states of freeze --wait, with `codes` the exit codes
\* the command may end with after a poll returned 0.
WaitOutcome(codes) ==
    \A p \in Procs :
        Waits(p) =>
            LET t == trace[p]
                freezes == At(t, "call", "Manager.freeze")
            IN  /\ freezes # {} => ZeroPolls(t) # {}
                /\ Done(p) => ZeroPolls(t) # {} \/ PollsWith(t, "raise") # {}
                /\ (Done(p) /\ PollsWith(t, "raise") = {}) =>
                       /\ Cardinality(freezes) = 1
                       /\ exit_code[p] \in codes
                       /\ \A j \in freezes :
                              exit_code[p] = IF t[j].tag = "raise" THEN 1 ELSE 0
                /\ PollsWith(t, "raise") # {} =>
                       Done(p) /\ exit_code[p] = 1 /\ freezes = {}
                /\ pc[p] = "freeze_poll" =>
                       /\ ZeroPolls(t) = {} /\ freezes = {}
                       /\ ENABLED (freeze_poll(p) \/ freeze_poll_on(p))

\* C11 as stated, in its states: freeze --wait calls Manager.freeze only after
\* a poll returned 0; it ends only after a poll returned 0 or raised; if no
\* poll raised it has then called Manager.freeze and the exit code is 0; if a
\* poll raised the exit code is 1 and Manager.freeze was never called; and
\* while it polls, the next poll is always possible.
C11_Original == WaitOutcome({0})

\* C11, amended: as stated, but after a poll returned 0 the exit code is 0
\* only when Manager.freeze returns, and 1 when Manager.freeze raises. In
\* every run: the states are as said, the loop never ends a run by itself (a
\* poll stays possible while no poll returned 0 or raised), and once a poll
\* has returned 0 Manager.freeze is called and the command terminates.
C11_WaitTermination ==
    /\ []WaitOutcome({0, 1})
    /\ \A p \in Procs : (Waits(p) /\ pc[p] = "freeze_call") ~> Done(p)

\* the loop went on past the polls the trace follows, and ended when a poll
\* returned 0
C11_Witness ==
    \E p \in Procs :
        /\ Waits(p) /\ Done(p)
        /\ frame[p].more = 1
        /\ Cardinality(At(trace[p], "call", "Manager.status")) = MaxPolls + 1
        /\ ZeroPolls(trace[p]) # {}
        /\ \E j \in At(trace[p], "call", "Manager.freeze") : trace[p][j].tag = "ok"
        /\ exit_code[p] = 0

\* Not a property of the program: every freeze --wait terminates. It fails in
\* the behaviour where every poll returns a non-zero count.
C11_Terminates == \A p \in Procs : pc[p] = "freeze_poll" ~> Done(p)

\* C12: in freeze, 'Manager is successfully frozen.' is printed only after
\* Manager.freeze returned; with --force-kill 'Killing all sessions...' comes
\* before the call and 'All sessions are killed.' after its return and before
\* the confirmation, without it neither is printed; if Manager.freeze raises,
\* neither 'All sessions are killed.' nor the confirmation is printed and the
\* exit code is 1; the call always carries the value of --force-kill.
C12_FreezeMessages ==
    \A p \in Procs :
        frame[p].handler = "freeze" =>
            LET t == trace[p]
                freezes == At(t, "call", "Manager.freeze")
                Msg(routine, text) ==
                    {i \in At(t, "print", routine) : t[i].arg = <<text>>}
                killing == Msg("print_wait", "Killing all sessions...")
                killed == Msg("print_done", "All sessions are killed.")
                frozen == Msg("print", "Manager is successfully frozen.")
            IN  /\ Cardinality(freezes) <= 1
                /\ \A j \in freezes :
                       /\ t[j].arg = <<IF frame[p].force_kill THEN "force_kill=True"
                                       ELSE "force_kill=False">>
                       /\ IF t[j].tag = "raise"
                          THEN killed = {} /\ frozen = {} /\ exit_code[p] = 1
                          ELSE /\ Cardinality(frozen) = 1 /\ exit_code[p] = 0
                               /\ \A k \in frozen : k > j
                               /\ \A k \in killed : \A m \in frozen : j < k /\ k < m
                       /\ IF frame[p].force_kill
                          THEN /\ Cardinality(killing) = 1
                               /\ \A k \in killing : k < j
                               /\ t[j].tag # "raise" => Cardinality(killed) = 1
                          ELSE killing = {} /\ killed = {}
                /\ freezes = {} => killing = {} /\ killed = {} /\ frozen = {}

\* freeze --force-kill has run to its confirmation
C12_Witness ==
    \E p \in Procs :
        /\ Done(p)
        /\ frame[p].handler = "freeze" /\ frame[p].force_kill
        /\ \E j \in At(trace[p], "call", "Manager.freeze") :
               trace[p][j].tag = "ok" /\ trace[p][j].arg = <<"force_kill=True">>
        /\ Printed(trace[p], "print_done", <<"All sessions are killed.">>)
        /\ Printed(trace[p], "print", <<"Manager is successfully frozen.">>)
        /\ exit_code[p] = 0

\* the calls that change the state of the manager
StateChanging ==
    {"Manager.freeze", "Manager.unfreeze", "Manager.update_announcement",
     "Manager.scheduler_op"} \cup GroupMutations

\* the places where an error is reported: through print_error, or by the
\* interpreter when the exception leaves the handler
Reports(t) ==
    {i \in 1..Len(t) : (t[i].ev = "print" /\ t[i].what = "print_error")
                          \/ (t[i].ev = "uncaught" /\ t[i].what = "Exception")}

\* C13: no command retries. After a collaborator call has raised, the
\* invocation makes no further collaborator call (a failed status poll is not
\* repeated, Manager.freeze is not attempted), the error is reported exactly
\* once, and each state-changing call is made at most once in an invocation.
C13_NoRetry ==
    \A p \in Procs :
        LET t == trace[p]
            raised == {i \in Calls(t) : t[i].tag = "raise"}
        IN  /\ \A i \in raised :
                   /\ \A j \in Calls(t) : j <= i
                   /\ Cardinality(raised) = 1
                   /\ Done(p) /\ exit_code[p] = 1
                   /\ Cardinality(Reports(t)) = 1
                   /\ \A k \in Reports(t) : k > i /\ t[k].arg = t[i].res
            /\ \A what \in StateChanging : Cardinality(At(t, "call", what)) <= 1

\* a status poll of freeze --wait failed after an earlier poll
C13_Witness ==
    \E p \in Procs :
        /\ Done(p) /\ Waits(p)
        /\ Cardinality(At(trace[p], "call", "Manager.status")) = 2
        /\ PollsWith(trace[p], "raise") # {}
        /\ At(trace[p], "call", "Manager.freeze") = {}
        /\ Cardinality(At(trace[p], "print", "print_error")) = 1
        /\ exit_code[p] = 1

====
